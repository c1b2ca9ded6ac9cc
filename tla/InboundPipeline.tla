--------------------------- MODULE InboundPipeline ---------------------------
(***************************************************************************)
(* The inbound half of the WhatsApp channel: the webhook stores a delivery *)
(* of Meta in webhook_events, a wa_event worker picks the oldest           *)
(* unprocessed row, and handle_inbound_event runs one FSM step for every   *)
(* message of the payload, all in one READ COMMITTED transaction that      *)
(* stays open over the calls of the LLM and of the WhatsApp provider.      *)
(*                                                                         *)
(* A transaction's uncommitted rows are kept in tx[w]; a row it has        *)
(* updated is locked for every other transaction until it ends, and is     *)
(* what its own later statements read.                                     *)
(***************************************************************************)
EXTENDS TurnEffects

CONSTANTS
  Workers,     \* running wa_event loops (workers/run_all.py starts one)
  Events,      \* deliveries Meta may make
  Payload,     \* the messages of a delivery: [Events -> Seq(Messages)]
  Routed,      \* deliveries with a message and a resolved active store
  Messages,    \* WhatsApp messages of customers
  Sender,      \* who sent a message: [Messages -> Customers \cup {Stranger}]
  Storable,    \* messages whose content_type the messages table admits
  Customers,   \* rows of customers
  Stranger,    \* a sender that is no customer of the store
  Convs,       \* rows of conversations, channel 'whatsapp'
  CustomerOf,  \* conversations.customer_id
  OrderOf,     \* conversations.order_id: [Convs -> Orders]
  OpenedAt,    \* conversations.opened_at
  Orders,      \* rows of orders
  Responses,   \* LLM responses considered: records [calls, text]
  StartStates, \* states of the open conversations at the start
  Closers,     \* outcomes an operator may close a conversation with
  Faults,      \* which faults happen: a subset of {"fail", "mark", "crash"}
  MaxCrashes,  \* bound on the number of crashes explored
  Nobody       \* no worker, no event, no conversation

ASSUME PipelineAssumption ==
  /\ Payload \in [Events -> Seq(Messages)]
  /\ Routed \subseteq Events
  /\ Sender \in [Messages -> Customers \cup {Stranger}]
  /\ Storable \subseteq Messages
  /\ Stranger \notin Customers
  /\ CustomerOf \in [Convs -> Customers]
  /\ OrderOf \in [Convs -> Orders]
  /\ OpenedAt \in [Convs -> Nat]
  /\ Responses \subseteq [calls : Seq(CallNames), text : BOOLEAN]
  /\ StartStates \subseteq States \ Terminal
  /\ Closers \subseteq Outcomes
  /\ MaxCrashes \in Nat
  /\ Nobody \notin Workers \cup Events \cup Convs

VARIABLES
  received,  \* webhook_events, in the order of received_at
  processed, \* events with processed_at
  errored,   \* events with error
  conv,      \* conversations
  status,    \* orders.confirmation_status
  fakes,     \* customers.fake_order_count
  tickets,   \* escalation_queue: <<conversation, message, call>>
  rows,      \* messages: <<conversation, message, direction>>
  pc,        \* where each worker is
  cur,       \* the event a worker holds
  pos,       \* index of the message it is at
  read,      \* the conversation it read for that message
  plan,      \* the LLM's response to that message
  tx,        \* its transaction's uncommitted writes
  sent,      \* replies the provider has delivered: <<conversation, message>>
  done,      \* history: events whose handler's transaction committed
  crashes

db    == <<conv, status, fakes, tickets, rows>>
queue == <<received, processed, errored>>
local == <<pos, read, plan, tx>>
vars == <<received, processed, errored, conv, status, fakes, tickets, rows,
          pc, cur, pos, read, plan, tx, sent, done, crashes>>

-----------------------------------------------------------------------------
ConvRow ==
  [state : States, hist : Seq([msg : Messages, from : States, to : States]),
   outcome : Outcomes \cup {None}, closed : BOOLEAN]

Directions == {"inbound", "outbound"}

\* f holds the rows of a table that a transaction has updated.
IsUpdate(f, R, V) == DOMAIN f \subseteq R /\ f \in [DOMAIN f -> V]

IsTx(t) ==
  /\ t = [conv |-> t.conv, status |-> t.status, fakes |-> t.fakes,
          tickets |-> t.tickets, rows |-> t.rows]
  /\ IsUpdate(t.conv, Convs, ConvRow)
  /\ IsUpdate(t.status, Orders, OrderStatuses)
  /\ IsUpdate(t.fakes, Customers, Nat)
  /\ t.tickets \subseteq Convs \X Messages \X Nat
  /\ t.rows \subseteq Convs \X Messages \X Directions

NoWrites ==
  [conv |-> <<>>, status |-> <<>>, fakes |-> <<>>, tickets |-> {}, rows |-> {}]

NoRead == [conv |-> Nobody, state |-> "greeting", hist |-> <<>>]

NoPlan == [calls |-> <<>>, text |-> FALSE]

\* handle_inbound_event is inside its transaction.
InTx == {"message", "llm", "tools", "send", "write"}

\* The worker has committed its pick and has not settled it.
Holding == InTx \cup {"start", "failing"}

PCs == {"idle", "picking"} \cup Holding

TypeOK ==
  /\ received \in Seq(Events)
  /\ processed \subseteq Events
  /\ errored \subseteq Events
  /\ conv \in [Convs -> ConvRow]
  /\ status \in [Orders -> OrderStatuses]
  /\ fakes \in [Customers -> Nat]
  /\ tickets \subseteq Convs \X Messages \X Nat
  /\ rows \subseteq Convs \X Messages \X Directions
  /\ pc \in [Workers -> PCs]
  /\ cur \in [Workers -> Events \cup {Nobody}]
  /\ pos \in [Workers -> Nat]
  /\ read \in [Workers -> [conv : Convs \cup {Nobody}, state : States,
                 hist : Seq([msg : Messages, from : States, to : States])]]
  /\ plan \in [Workers -> [calls : Seq(CallNames), text : BOOLEAN]]
  /\ tx = [w \in Workers |-> tx[w]]
  /\ \A w \in Workers : IsTx(tx[w])
  /\ sent \subseteq Convs \X Messages
  /\ done \subseteq Events
  /\ crashes \in Nat

Init ==
  /\ received = <<>>
  /\ processed = {}
  /\ errored = {}
  /\ conv \in [Convs -> {[state |-> s, hist |-> <<>>, outcome |-> None,
                          closed |-> FALSE] : s \in StartStates}]
  /\ status = [o \in Orders |-> "dispatched"]
  /\ fakes = [k \in Customers |-> 0]
  /\ tickets = {}
  /\ rows = {}
  /\ pc = [w \in Workers |-> "idle"]
  /\ cur = [w \in Workers |-> Nobody]
  /\ pos = [w \in Workers |-> 0]
  /\ read = [w \in Workers |-> NoRead]
  /\ plan = [w \in Workers |-> NoPlan]
  /\ tx = [w \in Workers |-> NoWrites]
  /\ sent = {}
  /\ done = {}
  /\ crashes = 0

-----------------------------------------------------------------------------
(* Helpers: rows as a transaction sees them, row locks, worker bookkeeping. *)

Stored == {received[i] : i \in DOMAIN received}

\* _payload_event_id: the id of the first message, whatever else is in the
\* payload; a delivery without messages has an id of its own.
SameEventId(e, f) ==
  \/ e = f
  \/ /\ Payload[e] # <<>> /\ Payload[f] # <<>>
     /\ Payload[e][1] = Payload[f][1]

\* Mutant: the pick without SKIP LOCKED.
PickableUnlocked == Stored \ (processed \cup errored)

Pickable ==
  {e \in Stored \ (processed \cup errored) :
     \A v \in Workers : ~(pc[v] = "picking" /\ cur[v] = e)}

\* A row as transaction w reads it: its own update, else the committed one.
ConvSeen(w, c) == IF c \in DOMAIN tx[w].conv THEN tx[w].conv[c] ELSE conv[c]
StatusSeen(w, o) == IF o \in DOMAIN tx[w].status THEN tx[w].status[o] ELSE status[o]
FakesSeen(w, k) == IF k \in DOMAIN tx[w].fakes THEN tx[w].fakes[k] ELSE fakes[k]

\* A function that agrees with f but for one row.
Put(f, x, y) == [z \in DOMAIN f \cup {x} |-> IF z = x THEN y ELSE f[z]]

Msg(w) == Payload[cur[w]][pos[w]]

\* Mutant: the pick without closed_at IS NULL.
EvenClosed(w) == {c \in Convs : CustomerOf[c] = Sender[Msg(w)]}

\* The customer's most recently opened open conversations, as w sees them.
OpenConvs(w) == {c \in Convs : CustomerOf[c] = Sender[Msg(w)] /\ ~ConvSeen(w, c).closed}
Latest(C) == {c \in C : \A d \in C : OpenedAt[d] <= OpenedAt[c]}

\* The state the FSM steps from, and what it makes of the response.
From(w) == Resolve(read[w].state)
To(w) == NextState(From(w), plan[w].calls)

CountsFake(w) == Uses(From(w), plan[w].calls, {"flag_wrong_number"}) # {}

\* The next statement of w updates a row that v has locked.
WaitsFor(w, v) ==
  /\ v # w
  /\ \/ /\ pc[w] = "tools"
        /\ \/ OrderOf[read[w].conv] \in DOMAIN tx[v].status
           \/ CountsFake(w) /\ CustomerOf[read[w].conv] \in DOMAIN tx[v].fakes
     \/ pc[w] = "write" /\ read[w].conv \in DOMAIN tx[v].conv

Blocked(w) == \E v \in Workers : WaitsFor(w, v)

Goto(w, p) == pc' = [pc EXCEPT ![w] = p]

\* The end of a transaction, either way: locks and local variables are gone.
EndTx(w) ==
  /\ pos' = [pos EXCEPT ![w] = 0]
  /\ read' = [read EXCEPT ![w] = NoRead]
  /\ plan' = [plan EXCEPT ![w] = NoPlan]
  /\ tx' = [tx EXCEPT ![w] = NoWrites]

Release(w) == cur' = [cur EXCEPT ![w] = Nobody]

-----------------------------------------------------------------------------
(* The webhook and the queue.                                              *)

\* Mutant: no unique (source, event_id).
ReceiveAny(e) ==
  /\ e \notin Stored
  /\ received' = Append(received, e)
  /\ UNCHANGED <<processed, errored, db, pc, cur, local, sent, done, crashes>>

\* receive: INSERT ... webhook_events; a second row with the same (source,
\* event_id) is refused and answered "duplicate".
Receive(e) ==
  /\ \A f \in Stored : ~SameEventId(e, f)
  /\ received' = Append(received, e)
  /\ UNCHANGED <<processed, errored, db, pc, cur, local, sent, done, crashes>>

\* _pick_one: SELECT ... ORDER BY received_at LIMIT 1 FOR UPDATE SKIP LOCKED,
PickLock(w) ==
  /\ pc[w] = "idle"
  /\ \E i \in DOMAIN received :
       /\ received[i] \in Pickable
       /\ \A j \in 1 .. i - 1 : received[j] \notin Pickable
       /\ cur' = [cur EXCEPT ![w] = received[i]]
  /\ Goto(w, "picking")
  /\ UNCHANGED <<queue, db, local, sent, done, crashes>>

\* then SET processed_at and commit.
PickCommit(w) ==
  /\ pc[w] = "picking"
  /\ processed' = processed \cup {cur[w]}
  /\ Goto(w, "start")
  /\ UNCHANGED <<received, errored, db, cur, local, sent, done, crashes>>

\* picked is None: wait two seconds and look again.
Poll(w) ==
  /\ pc[w] = "idle"
  /\ Stored \cap Pickable = {}
  /\ UNCHANGED vars

-----------------------------------------------------------------------------
(* handle_inbound_event.                                                   *)

\* The early returns: not a message event, no store, nothing parsed.
Drop(w) ==
  /\ pc[w] = "start"
  /\ cur[w] \notin Routed \/ Payload[cur[w]] = <<>>
  /\ done' = done \cup {cur[w]}
  /\ Goto(w, "idle")
  /\ Release(w)
  /\ UNCHANGED <<queue, db, local, sent, crashes>>

Start(w) ==
  /\ pc[w] = "start"
  /\ cur[w] \in Routed
  /\ Payload[cur[w]] # <<>>
  /\ pos' = [pos EXCEPT ![w] = 1]
  /\ Goto(w, "message")
  /\ UNCHANGED <<queue, db, cur, read, plan, tx, sent, done, crashes>>

AtMessage(w) == pc[w] = "message" /\ pos[w] <= Len(Payload[cur[w]])

\* continue: an unknown sender, or a customer without an open conversation.
Skip(w) ==
  /\ AtMessage(w)
  /\ OpenConvs(w) = {}
  /\ pos' = [pos EXCEPT ![w] = @ + 1]
  /\ UNCHANGED <<queue, db, pc, cur, read, plan, tx, sent, done, crashes>>

\* SELECT the conversation, INSERT the inbound message.  state and history
\* are used again only after the LLM and the provider have answered.
ReadConversation(w) ==
  /\ AtMessage(w)
  /\ Msg(w) \in Storable
  /\ \E c \in Latest(OpenConvs(w)) :
       /\ read' = [read EXCEPT ![w] = [conv  |-> c,
                                       state |-> ConvSeen(w, c).state,
                                       hist  |-> ConvSeen(w, c).hist]]
       /\ tx' = [tx EXCEPT ![w].rows = @ \cup {<<c, Msg(w), "inbound">>}]
  /\ Goto(w, "llm")
  /\ UNCHANGED <<queue, db, cur, pos, plan, sent, done, crashes>>

\* The CHECK on messages.content_type refuses the inbound row.
RejectContent(w) ==
  /\ AtMessage(w)
  /\ OpenConvs(w) # {}
  /\ Msg(w) \notin Storable
  /\ EndTx(w)
  /\ Goto(w, "failing")
  /\ UNCHANGED <<queue, db, cur, sent, done, crashes>>

\* driver.step up to the handlers; a terminal state returns before the LLM.
Step(w) ==
  /\ pc[w] = "llm"
  /\ \E r \in IF From(w) \in Terminal THEN {NoPlan} ELSE Responses :
       /\ plan' = [plan EXCEPT ![w] = r]
       /\ Goto(w, CASE Uses(From(w), r.calls, Effectful) # {} -> "tools"
                    [] Uses(From(w), r.calls, Effectful) = {} /\ r.text -> "send"
                    [] OTHER -> "write")
  /\ UNCHANGED <<queue, db, cur, pos, read, tx, sent, done, crashes>>

\* The tool handlers, once the rows they update are not locked.
Handlers(w) ==
  LET t == tx[w]
      c == read[w].conv
      o == OrderOf[c]
      k == CustomerOf[c]
      calls == plan[w].calls
  IN
  /\ pc[w] = "tools"
  /\ ~Blocked(w)
  /\ tx' = [tx EXCEPT ![w] = [t EXCEPT
       !.status = Put(t.status, o, StatusAfter(StatusSeen(w, o), From(w), calls)),
       !.fakes = IF CountsFake(w)
                 THEN Put(t.fakes, k, FakesSeen(w, k) + WrongNumberCount(From(w), calls))
                 ELSE t.fakes,
       !.tickets = t.tickets \cup {<<c, Msg(w), i>> : i \in TicketCalls(From(w), calls)}]]
  /\ Goto(w, IF plan[w].text THEN "send" ELSE "write")
  /\ UNCHANGED <<queue, db, cur, pos, read, plan, sent, done, crashes>>

\* provider.send_text
Reply(w) ==
  /\ pc[w] = "send"
  /\ sent' = sent \cup {<<read[w].conv, Msg(w)>>}
  /\ Goto(w, "write")
  /\ UNCHANGED <<queue, db, cur, local, done, crashes>>

\* The call fails, although the reply may have been delivered (a timeout).
ReplyFails(w) ==
  /\ "fail" \in Faults
  /\ pc[w] = "send"
  /\ sent' = sent \cup {<<read[w].conv, Msg(w)>>}
  /\ EndTx(w)
  /\ Goto(w, "failing")
  /\ UNCHANGED <<queue, db, cur, done, crashes>>

\* The conversation's UPDATE: outcome and closed_at are computed from the row
\* itself, state and history from what was read before the step.
TurnHist(w) ==
  IF From(w) \in Terminal THEN read[w].hist
  ELSE Append(read[w].hist, [msg |-> Msg(w), from |-> From(w), to |-> To(w)])

\* Mutant: closed_at is set by the turn alone.
TurnRowReopens(w, row) ==
  [state   |-> To(w),
   hist    |-> TurnHist(w),
   outcome |-> Coalesce(TurnOutcome(From(w), plan[w].calls), row.outcome),
   closed  |-> Finished(From(w), plan[w].calls)]

\* Mutant: the turn is appended to the history of the row as it is now.
TurnRowAppends(w, row) ==
  [state   |-> To(w),
   hist    |-> Append(row.hist, [msg |-> Msg(w), from |-> From(w), to |-> To(w)]),
   outcome |-> Coalesce(TurnOutcome(From(w), plan[w].calls), row.outcome),
   closed  |-> row.closed \/ Finished(From(w), plan[w].calls)]

TurnRow(w, row) ==
  [state   |-> To(w),
   hist    |-> TurnHist(w),
   outcome |-> Coalesce(TurnOutcome(From(w), plan[w].calls), row.outcome),
   closed  |-> row.closed \/ Finished(From(w), plan[w].calls)]

\* Mutant: a commit after every message.
WriteCommits(w) ==
  LET c == read[w].conv IN
  /\ pc[w] = "write"
  /\ ~Blocked(w)
  /\ conv' = [d \in Convs |-> IF d = c THEN TurnRow(w, ConvSeen(w, c)) ELSE ConvSeen(w, d)]
  /\ status' = [o \in Orders |-> StatusSeen(w, o)]
  /\ fakes' = [k \in Customers |-> FakesSeen(w, k)]
  /\ tickets' = tickets \cup tx[w].tickets
  /\ rows' = rows \cup tx[w].rows \cup {<<c, Msg(w), "outbound">>}
  /\ tx' = [tx EXCEPT ![w] = NoWrites]
  /\ pos' = [pos EXCEPT ![w] = @ + 1]
  /\ read' = [read EXCEPT ![w] = NoRead]
  /\ plan' = [plan EXCEPT ![w] = NoPlan]
  /\ Goto(w, "message")
  /\ UNCHANGED <<queue, cur, sent, done, crashes>>

\* INSERT the outbound message, UPDATE conversations; on to the next message.
Write(w) ==
  LET t == tx[w]
      c == read[w].conv
  IN
  /\ pc[w] = "write"
  /\ ~Blocked(w)
  /\ tx' = [tx EXCEPT ![w] = [t EXCEPT
       !.conv = Put(t.conv, c, TurnRow(w, ConvSeen(w, c))),
       !.rows = t.rows \cup {<<c, Msg(w), "outbound">>}]]
  /\ pos' = [pos EXCEPT ![w] = @ + 1]
  /\ read' = [read EXCEPT ![w] = NoRead]
  /\ plan' = [plan EXCEPT ![w] = NoPlan]
  /\ Goto(w, "message")
  /\ UNCHANGED <<queue, db, cur, sent, done, crashes>>

\* The transaction commits; _process returns.
Commit(w) ==
  /\ pc[w] = "message"
  /\ pos[w] > Len(Payload[cur[w]])
  /\ conv' = [c \in Convs |-> ConvSeen(w, c)]
  /\ status' = [o \in Orders |-> StatusSeen(w, o)]
  /\ fakes' = [k \in Customers |-> FakesSeen(w, k)]
  /\ tickets' = tickets \cup tx[w].tickets
  /\ rows' = rows \cup tx[w].rows
  /\ done' = done \cup {cur[w]}
  /\ EndTx(w)
  /\ Goto(w, "idle")
  /\ Release(w)
  /\ UNCHANGED <<queue, sent, crashes>>

-----------------------------------------------------------------------------
(* Failures.                                                               *)

\* Mutant: the session commits on the way out.
FailCommits(w) ==
  /\ "fail" \in Faults
  /\ pc[w] \in InTx
  /\ conv' = [c \in Convs |-> ConvSeen(w, c)]
  /\ status' = [o \in Orders |-> StatusSeen(w, o)]
  /\ fakes' = [k \in Customers |-> FakesSeen(w, k)]
  /\ tickets' = tickets \cup tx[w].tickets
  /\ rows' = rows \cup tx[w].rows
  /\ EndTx(w)
  /\ Goto(w, "failing")
  /\ UNCHANGED <<queue, cur, sent, done, crashes>>

\* Mutant: the exception ends the loop, and the error is not recorded.
FailStops(w) ==
  /\ "fail" \in Faults
  /\ pc[w] \in InTx
  /\ EndTx(w)
  /\ Goto(w, "stopped")
  /\ UNCHANGED <<queue, db, cur, sent, done, crashes>>

\* The database, the LLM or a handler raises: rollback.
Fail(w) ==
  /\ "fail" \in Faults
  /\ pc[w] \in InTx
  /\ EndTx(w)
  /\ Goto(w, "failing")
  /\ UNCHANGED <<queue, db, cur, sent, done, crashes>>

\* Transactions of S wait for each other; Postgres aborts one of them.
Deadlocked(S) ==
  \A u \in S : (\E v \in S : WaitsFor(u, v)) /\ (\E v \in S : WaitsFor(v, u))

DeadlockAbort(w) ==
  /\ \E S \in SUBSET Workers : w \in S /\ Deadlocked(S)
  /\ EndTx(w)
  /\ Goto(w, "failing")
  /\ UNCHANGED <<queue, db, cur, sent, done, crashes>>

\* Mutant: a failed delivery is offered again.
MarkErrorRetries(w) ==
  /\ pc[w] = "failing"
  /\ processed' = processed \ {cur[w]}
  /\ Goto(w, "idle")
  /\ Release(w)
  /\ UNCHANGED <<received, errored, db, local, sent, done, crashes>>

\* _mark_error, and the loop's back-off.
MarkError(w) ==
  /\ pc[w] = "failing"
  /\ errored' = errored \cup {cur[w]}
  /\ Goto(w, "idle")
  /\ Release(w)
  /\ UNCHANGED <<received, processed, db, local, sent, done, crashes>>

MarkErrorFails(w) ==
  /\ "mark" \in Faults
  /\ pc[w] = "failing"
  /\ Goto(w, "idle")
  /\ Release(w)
  /\ UNCHANGED <<queue, db, local, sent, done, crashes>>

\* The process dies and is restarted; its open transaction is rolled back.
Crash(w) ==
  /\ "crash" \in Faults
  /\ crashes < MaxCrashes
  /\ pc[w] # "idle"
  /\ EndTx(w)
  /\ Goto(w, "idle")
  /\ Release(w)
  /\ crashes' = crashes + 1
  /\ UNCHANGED <<queue, db, sent, done>>

-----------------------------------------------------------------------------
\* close_conversation, by an operator of the store.
Close(c, o) ==
  /\ ~conv[c].closed
  /\ \A w \in Workers : c \notin DOMAIN tx[w].conv
  /\ conv' = [conv EXCEPT ![c].state = "closing",
                          ![c].outcome = o,
                          ![c].closed = TRUE]
  /\ UNCHANGED <<queue, status, fakes, tickets, rows, pc, cur, local, sent, done, crashes>>

-----------------------------------------------------------------------------
Advance(w) ==
  \/ PickLock(w) \/ PickCommit(w) \/ Drop(w) \/ Start(w) \/ Skip(w)
  \/ ReadConversation(w) \/ RejectContent(w) \/ Step(w) \/ Handlers(w)
  \/ Reply(w) \/ Write(w) \/ Commit(w) \/ MarkError(w) \/ DeadlockAbort(w)

Break(w) == Fail(w) \/ ReplyFails(w) \/ MarkErrorFails(w) \/ Crash(w)

Next ==
  \/ \E e \in Events : Receive(e)
  \/ \E w \in Workers : Advance(w) \/ Break(w) \/ Poll(w)
  \/ \E c \in Convs, o \in Closers : Close(c, o)

\* The loops run until they are stopped; the LLM, the provider and the
\* database answer or raise, and Meta and the operators owe nothing.
Fairness == \A w \in Workers : WF_vars(Advance(w))

Spec == Init /\ [][Next]_vars
FairSpec == Spec /\ Fairness

-----------------------------------------------------------------------------
(* Properties.                                                             *)

(* FOR UPDATE SKIP LOCKED and processed_at: two workers never handle one    *)
(* delivery, and a delivery whose handler committed or failed is never      *)
(* handled again, whatever crashed in between.                              *)
OneHolder ==
  \A w \in Workers :
    /\ pc[w] # "idle" =>
         /\ cur[w] \in Stored \ (done \cup errored)
         /\ \A v \in Workers \ {w} : cur[v] # cur[w]
    /\ pc[w] \in Holding <=> cur[w] \in processed

(* Deliveries that share a message have the same first message, so that      *)
(* webhook_events' unique event_id recognises a repeated one.                *)
NoRebatching ==
  \A e, f \in Events :
    (\E i \in DOMAIN Payload[e], j \in DOMAIN Payload[f] : Payload[e][i] = Payload[f][j])
      => SameEventId(e, f)

(* A message of the customer is a turn of a conversation at most once, for   *)
(* all redeliveries, crashes and workers (one turn for one message).         *)
MessageOnce ==
  NoRebatching =>
    \A c \in Convs : \A i, j \in DOMAIN conv[c].hist :
      conv[c].hist[i].msg = conv[c].hist[j].msg => i = j

(* The stored history and the stored state never disagree: the turns form a  *)
(* path of the FSM that ends in the state, unless an operator closed the     *)
(* conversation.  Both come from one read, so this survives lost updates.    *)
HistoryExplainsState ==
  \A c \in Convs :
    LET h == conv[c].hist IN
    /\ \A i \in 1 .. Len(h) - 1 : h[i].to = h[i + 1].from
    /\ h # <<>> => \/ conv[c].state = h[Len(h)].to
                   \/ conv[c].closed /\ conv[c].state = "closing"

MessagesOf(e) == {Payload[e][i] : i \in DOMAIN Payload[e]}

\* The messages of deliveries whose handler has committed.
Handled == UNION {MessagesOf(e) : e \in done}

(* A delivery is stored whole or not at all, whatever fails, deadlocks or    *)
(* dies between its messages.  Every row of messages, inbound or outbound,   *)
(* is of a delivery whose handler committed, and has its counterpart; every  *)
(* message of such a delivery is stored, unless the customer has no open     *)
(* conversation; histories and tickets speak of stored messages only (what   *)
(* they must not miss is HistoryComplete and EscalationHasTicket).  A reply  *)
(* the provider has delivered, which no rollback takes back, is stored or    *)
(* belongs to a delivery whose handler is under way, failed or was lost.     *)
NoHalfDelivery ==
  /\ \A c \in Convs, m \in Messages :
       <<c, m, "inbound">> \in rows <=> <<c, m, "outbound">> \in rows
  /\ \A r \in rows : r[2] \in Handled
  /\ \A e \in done \cap Routed : \A m \in MessagesOf(e) :
       \/ \E c \in Convs : CustomerOf[c] = Sender[m] /\ <<c, m, "inbound">> \in rows
       \/ \A c \in Convs : CustomerOf[c] = Sender[m] => conv[c].closed
  /\ \A c \in Convs : \A i \in DOMAIN conv[c].hist :
       <<c, conv[c].hist[i].msg, "inbound">> \in rows
  /\ \A t \in tickets : <<t[1], t[2], "inbound">> \in rows
  /\ \A r \in sent :
       \/ <<r[1], r[2], "outbound">> \in rows
       \/ \E e \in processed \ done : r[2] \in MessagesOf(e)

(* With the one loop that run_all starts, every stored message is a turn of  *)
(* the history the next LLM call is given.                                   *)
HistoryComplete ==
  \A c \in Convs, m \in Messages :
    <<c, m, "inbound">> \in rows =>
      \E i \in DOMAIN conv[c].hist : conv[c].hist[i].msg = m

(* An order that carries the customer's decision belongs to a conversation   *)
(* with an outcome: handlers and the conversation's UPDATE commit together   *)
(* and COALESCE never erases an outcome.                                     *)
DecisionHasOutcome ==
  \A o \in Orders :
    status[o] \in Decisions =>
      \E c \in Convs : OrderOf[c] = o /\ conv[c].outcome # None

(* An escalated or change-request order is in the operators' queue.          *)
EscalationHasTicket ==
  \A o \in Orders :
    status[o] \in {"escalated", "change_request"} =>
      \E t \in tickets : OrderOf[t[1]] = o

(* No open conversation is in a terminal state, where every later message of *)
(* the customer would be swallowed by the early return of driver.step.       *)
TerminalImpliesClosed ==
  \A c \in Convs : conv[c].state \in Terminal => conv[c].closed

(* Closing is final for closed_at, and outcome is never reset, although a    *)
(* turn that read the conversation open may write it after the close.        *)
ClosedIsFinal ==
  [][\A c \in Convs :
       /\ conv[c].closed => conv'[c].closed
       /\ conv[c].outcome # None => conv'[c].outcome # None]_vars

(* webhook_events as a queue that claims and settles a delivery at most once. *)
JobOf(e) ==
  CASE e \in done    -> "applied"
    [] e \in errored \ done -> "failed"
    [] e \notin done \cup errored \cup Stored -> "absent"
    [] e \in Stored \ (done \cup errored \cup processed) -> "ready"
    [] e \in (Stored \cap processed) \ (done \cup errored) ->
         IF \E w \in Workers : cur[w] = e THEN "claimed" ELSE "lost"

Queue == INSTANCE AtMostOnceQueue WITH Jobs <- Events, job <- [e \in Events |-> JobOf(e)]

(* FOR UPDATE SKIP LOCKED and processed_at: a delivery is claimed by one     *)
(* worker and settles once, and is never claimed again.                      *)
RefinesQueue == Queue!Spec

(* A stored delivery is picked, whatever blocks, deadlocks or fails: its     *)
(* handler commits or its error is recorded, unless the process died holding *)
(* it or could not write the error down.                                     *)
EveryEventSettles ==
  \A e \in Events : e \in Stored ~> JobOf(e) \in {"applied", "failed", "lost"}

-----------------------------------------------------------------------------
(* SPEC.md:81, closing is a terminal state: a conversation does not leave it. *)
TerminalIsFinal ==
  [][\A c \in Convs : conv[c].state \in Terminal => conv'[c].state = conv[c].state]_vars

=============================================================================
