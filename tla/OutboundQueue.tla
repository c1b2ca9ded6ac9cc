---------------------------- MODULE OutboundQueue ----------------------------
(***************************************************************************)
(* The outbound half: retry_worker picks a due row of retry_queues and     *)
(* outbound_first_contact sends the template that opens the conversation.  *)
(* The pick is a transaction, the dispatch another that stays open over    *)
(* the calls of the provider, and marking the row completed a third.       *)
(***************************************************************************)
EXTENDS Naturals, Sequences, FiniteSets

CONSTANTS
  Workers,     \* running retry loops (workers/run_all.py starts one)
  Rows,        \* rows of retry_queues that may be inserted
  Channel,     \* [Rows -> {"whatsapp", "sms"}]
  OrderOf,     \* retry_queues.order_id
  Orders,      \* rows of orders
  Buyer,       \* [Orders -> Buyers], phone_hash of the order's customer
  Buyers,
  Faults,      \* a subset of {"fail", "timeout", "mark", "crash"}
  MaxCrashes,  \* bound on the number of crashes explored
  Nobody       \* no row

ASSUME OutboundAssumption ==
  /\ Channel \in [Rows -> {"whatsapp", "sms"}]
  /\ OrderOf \in [Rows -> Orders]
  /\ Buyer \in [Orders -> Buyers]
  /\ MaxCrashes \in Nat
  /\ Nobody \notin Rows

VARIABLES
  due,        \* rows inserted and due, in the order of scheduled_for
  picked,     \* rows with picked_up_at
  completed,  \* rows with completed_at: [Rows -> {"no", "ok", "error"}]
  consent,    \* wa_opt_ins: [Buyers -> {"none", "in", "out"}]
  open,       \* orders with a conversation row
  pc, cur,    \* where each worker is, and its row
  attempt,    \* the provider client's attempt
  delivered,  \* templates the provider has delivered for an order
  crashes

env   == <<due, consent>>
vars  == <<due, picked, completed, consent, open, pc, cur, attempt,
           delivered, crashes>>

\* stop_after_attempt(3)
Attempts == 3

Dispatching == {"start", "send", "persist"}
Marking == {"succeeded", "failed"}
PCs == {"idle", "picking"} \cup Dispatching \cup Marking

TypeOK ==
  /\ due \in Seq(Rows)
  /\ picked \subseteq Rows
  /\ completed \in [Rows -> {"no", "ok", "error"}]
  /\ consent \in [Buyers -> {"none", "in", "out"}]
  /\ open \subseteq Orders
  /\ pc \in [Workers -> PCs]
  /\ cur \in [Workers -> Rows \cup {Nobody}]
  /\ attempt \in [Workers -> 0 .. Attempts]
  /\ delivered \in [Orders -> Nat]
  /\ crashes \in Nat

Init ==
  /\ due = <<>>
  /\ picked = {}
  /\ completed = [q \in Rows |-> "no"]
  /\ consent \in [Buyers -> {"none", "in"}]
  /\ open = {}
  /\ pc = [w \in Workers |-> "idle"]
  /\ cur = [w \in Workers |-> Nobody]
  /\ attempt = [w \in Workers |-> 0]
  /\ delivered = [o \in Orders |-> 0]
  /\ crashes = 0

-----------------------------------------------------------------------------
Goto(w, p) == pc' = [pc EXCEPT ![w] = p]

Stored == {due[i] : i \in DOMAIN due}

\* Mutant: the pick without SKIP LOCKED.
PickableUnlocked == {q \in Stored : q \notin picked /\ completed[q] = "no"}

Pickable ==
  {q \in Stored : /\ q \notin picked
                  /\ completed[q] = "no"
                  /\ \A v \in Workers : ~(pc[v] = "picking" /\ cur[v] = q)}

Order(w) == OrderOf[cur[w]]

-----------------------------------------------------------------------------
\* enqueue_outbound or POST /sms commits.
Enqueue(q) ==
  /\ q \notin Stored
  /\ due' = Append(due, q)
  /\ UNCHANGED <<picked, completed, consent, open, pc, cur, attempt,
                 delivered, crashes>>

\* A buyer opts in or out, at any time.
Consent(b, v) ==
  /\ consent[b] # v
  /\ consent' = [consent EXCEPT ![b] = v]
  /\ UNCHANGED <<due, picked, completed, open, pc, cur, attempt,
                 delivered, crashes>>

\* _pick_one: SELECT ... LIMIT 1 FOR UPDATE SKIP LOCKED,
PickLock(w) ==
  /\ pc[w] = "idle"
  /\ \E i \in DOMAIN due :
       /\ due[i] \in Pickable
       /\ \A j \in 1 .. i - 1 : due[j] \notin Pickable
       /\ cur' = [cur EXCEPT ![w] = due[i]]
  /\ Goto(w, "picking")
  /\ UNCHANGED <<env, picked, completed, open, attempt, delivered, crashes>>

\* then SET picked_up_at and commit.
PickCommit(w) ==
  /\ pc[w] = "picking"
  /\ picked' = picked \cup {cur[w]}
  /\ Goto(w, "start")
  /\ UNCHANGED <<env, completed, open, cur, attempt, delivered, crashes>>

Poll(w) ==
  /\ pc[w] = "idle"
  /\ Stored \cap Pickable = {}
  /\ UNCHANGED vars

-----------------------------------------------------------------------------
(* outbound_first_contact.                                                 *)

\* channel != "whatsapp": logged, and reported as done.  So is an order that
\* _load_order_context does not find (ctx is None), which has no action: the
\* foreign keys of retry_queues and orders keep the rows it joins.
SkipChannel(w) ==
  /\ pc[w] = "start"
  /\ Channel[cur[w]] # "whatsapp"
  /\ Goto(w, "succeeded")
  /\ UNCHANGED <<env, picked, completed, open, cur, attempt, delivered, crashes>>

\* Mutant: a buyer who has not opted in is dropped in silence.
NoOptInIgnored(w) ==
  /\ pc[w] = "start"
  /\ Channel[cur[w]] = "whatsapp"
  /\ consent[Buyer[Order(w)]] # "in"
  /\ Goto(w, "succeeded")
  /\ UNCHANGED <<env, picked, completed, open, cur, attempt, delivered, crashes>>

\* No opt-in: _open_escalation inserts a row for the operator without a
\* conversation, which escalation_queue refuses (NOT NULL); the INSERT raises.
NoOptIn(w) ==
  /\ pc[w] = "start"
  /\ Channel[cur[w]] = "whatsapp"
  /\ consent[Buyer[Order(w)]] # "in"
  /\ Goto(w, "failed")
  /\ UNCHANGED <<env, picked, completed, open, cur, attempt, delivered, crashes>>

\* Mutant: the opt-in is not looked up.
OpenUnasked(w) ==
  /\ pc[w] = "start"
  /\ Channel[cur[w]] = "whatsapp"
  /\ attempt' = [attempt EXCEPT ![w] = 1]
  /\ Goto(w, "send")
  /\ UNCHANGED <<env, picked, completed, open, cur, delivered, crashes>>

\* Opted in: the conversation is inserted, not yet committed.
OpenConversation(w) ==
  /\ pc[w] = "start"
  /\ Channel[cur[w]] = "whatsapp"
  /\ consent[Buyer[Order(w)]] = "in"
  /\ attempt' = [attempt EXCEPT ![w] = 1]
  /\ Goto(w, "send")
  /\ UNCHANGED <<env, picked, completed, open, cur, delivered, crashes>>

Deliver(w) == delivered' = [delivered EXCEPT ![Order(w)] = @ + 1]

\* send_template is answered.
Sent(w) ==
  /\ pc[w] = "send"
  /\ Deliver(w)
  /\ Goto(w, "persist")
  /\ UNCHANGED <<env, picked, completed, open, cur, attempt, crashes>>

\* An httpx.HTTPError or a 5xx, before or after the template was delivered:
\* tried again, three attempts in all.
SendError(w) ==
  /\ "timeout" \in Faults
  /\ pc[w] = "send"
  /\ Deliver(w) \/ UNCHANGED delivered
  /\ IF attempt[w] < Attempts
     THEN attempt' = [attempt EXCEPT ![w] = @ + 1] /\ UNCHANGED pc
     ELSE Goto(w, "failed") /\ UNCHANGED attempt
  /\ UNCHANGED <<env, picked, completed, open, cur, crashes>>

\* _persist_outbound, and the commit of conversation and message.
Persist(w) ==
  /\ pc[w] = "persist"
  /\ open' = open \cup {Order(w)}
  /\ Goto(w, "succeeded")
  /\ UNCHANGED <<env, picked, completed, cur, attempt, delivered, crashes>>

\* Mutant: the exception ends the loop.
FailStops(w) ==
  /\ "fail" \in Faults
  /\ pc[w] \in Dispatching
  /\ Goto(w, "stopped")
  /\ UNCHANGED <<env, picked, completed, open, cur, attempt, delivered, crashes>>

\* The database raises, or the provider refuses (4xx): rollback.
Fail(w) ==
  /\ "fail" \in Faults
  /\ pc[w] \in Dispatching
  /\ Goto(w, "failed")
  /\ UNCHANGED <<env, picked, completed, open, cur, attempt, delivered, crashes>>

-----------------------------------------------------------------------------
Release(w) ==
  /\ Goto(w, "idle")
  /\ cur' = [cur EXCEPT ![w] = Nobody]
  /\ attempt' = [attempt EXCEPT ![w] = 0]

\* Mutant: a failed row is offered again.
MarkDoneRetries(w) ==
  /\ pc[w] \in Marking
  /\ IF pc[w] = "succeeded"
     THEN completed' = [completed EXCEPT ![cur[w]] = "ok"] /\ UNCHANGED picked
     ELSE picked' = picked \ {cur[w]} /\ UNCHANGED completed
  /\ Release(w)
  /\ UNCHANGED <<env, open, delivered, crashes>>

MarkDone(w) ==
  /\ pc[w] \in Marking
  /\ completed' = [completed EXCEPT ![cur[w]] =
                     IF pc[w] = "succeeded" THEN "ok" ELSE "error"]
  /\ Release(w)
  /\ UNCHANGED <<env, picked, open, delivered, crashes>>

\* _mark_done raises: after a success, it is tried again as a failure.
MarkDoneFails(w) ==
  /\ "mark" \in Faults
  /\ pc[w] \in Marking
  /\ IF pc[w] = "succeeded"
     THEN Goto(w, "failed") /\ UNCHANGED <<cur, attempt>>
     ELSE Release(w)
  /\ UNCHANGED <<env, picked, completed, open, delivered, crashes>>

Crash(w) ==
  /\ "crash" \in Faults
  /\ crashes < MaxCrashes
  /\ pc[w] # "idle"
  /\ Release(w)
  /\ crashes' = crashes + 1
  /\ UNCHANGED <<env, picked, completed, open, delivered>>

Advance(w) ==
  \/ PickLock(w) \/ PickCommit(w) \/ SkipChannel(w) \/ NoOptIn(w)
  \/ OpenConversation(w) \/ Sent(w) \/ SendError(w) \/ Persist(w) \/ MarkDone(w)

Next ==
  \/ \E q \in Rows : Enqueue(q)
  \/ \E b \in Buyers, v \in {"in", "out"} : Consent(b, v)
  \/ \E w \in Workers : Advance(w) \/ Fail(w) \/ MarkDoneFails(w) \/ Crash(w) \/ Poll(w)

Fairness == \A w \in Workers : WF_vars(Advance(w))

Spec == Init /\ [][Next]_vars
FairSpec == Spec /\ Fairness
-----------------------------------------------------------------------------
(* A buyer is contacted for an order at most as often as one dispatch tries, *)
(* for all failures, crashes and workers: a row is never dispatched twice,   *)
(* although nobody knows whether a failed attempt was delivered.             *)
ContactBounded ==
  \A o \in Orders : delivered[o] <= Attempts

(* COMPLIANCE.md, opt-in required: no template reaches a buyer who never     *)
(* opted in.  (Opting out while a dispatch is under way comes too late.)     *)
ContactedHadConsent ==
  \A o \in Orders : delivered[o] > 0 => consent[Buyer[o]] # "none"

(* A WhatsApp row that is completed without an error means that the buyer    *)
(* was contacted and that a reply will find the conversation open.           *)
OkMeansContacted ==
  \A q \in Rows :
    completed[q] = "ok" /\ Channel[q] = "whatsapp" =>
      delivered[OrderOf[q]] > 0 /\ OrderOf[q] \in open

(* retry_queues as a queue that claims and settles a row at most once.       *)
JobOf(q) ==
  CASE completed[q] = "ok"    -> "applied"
    [] completed[q] = "error" -> "failed"
    [] completed[q] = "no" /\ q \notin Stored -> "absent"
    [] completed[q] = "no" /\ q \in Stored \ picked -> "ready"
    [] completed[q] = "no" /\ q \in Stored \cap picked ->
         IF \E w \in Workers : cur[w] = q THEN "claimed" ELSE "lost"

Queue == INSTANCE AtMostOnceQueue WITH Jobs <- Rows, job <- [q \in Rows |-> JobOf(q)]

(* FOR UPDATE SKIP LOCKED and picked_up_at: a row is claimed by one worker,  *)
(* settles once, and is never claimed again, even when its worker dies.      *)
RefinesQueue == Queue!Spec

(* A due row is picked and completed, however its dispatch ends, unless the  *)
(* process died holding it or could not mark it.                             *)
EveryRowSettles ==
  \A q \in Rows : q \in Stored ~> JobOf(q) \in {"applied", "failed", "lost"}

=============================================================================
