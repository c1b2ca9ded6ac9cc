---------------------------- MODULE Conversation ----------------------------
(***************************************************************************)
(* One conversation about one order, each turn taken as a whole: what the  *)
(* rest of the system would see if nothing ran beside the worker and       *)
(* nothing failed.  A turn is one inbound message answered by one LLM      *)
(* response: the handlers run, the conversation row is updated.            *)
(* InboundPipeline is shown to implement this module conversation by       *)
(* conversation.                                                           *)
(***************************************************************************)
EXTENDS TurnEffects

CONSTANTS
  Responses,   \* the LLM responses considered: records [calls, text]
  StartStates, \* states the conversation may be in at the start
  MaxTurns     \* bound on the number of turns explored

ASSUME ConversationAssumption ==
  /\ Responses \subseteq [calls : Seq(CallNames), text : BOOLEAN]
  /\ StartStates \subseteq States \ Terminal
  /\ MaxTurns \in Nat

VARIABLES
  state,    \* conversations.state
  hist,     \* conversations.history: the turns, as [from, to]
  outcome,  \* conversations.outcome, None for NULL
  closed,   \* conversations.closed_at IS NOT NULL
  status,   \* orders.confirmation_status
  tickets,  \* escalation_queue rows: <<turn, call>>
  fakes     \* customers.fake_order_count

vars == <<state, hist, outcome, closed, status, tickets, fakes>>

TypeOK ==
  /\ state \in States
  /\ hist \in Seq([from : States, to : States])
  /\ outcome \in Outcomes \cup {None}
  /\ closed \in BOOLEAN
  /\ status \in OrderStatuses
  /\ tickets \subseteq Nat \X Nat
  /\ fakes \in Nat

Init ==
  /\ state \in StartStates
  /\ hist = <<>>
  /\ outcome = None
  /\ closed = FALSE
  /\ status = "dispatched"
  /\ tickets = {}
  /\ fakes = 0

\* A message of the customer finds the conversation open; a closed one is not
\* selected (closed_at IS NULL) and the message is ignored.
Turn(r) ==
  /\ ~closed
  /\ Len(hist) < MaxTurns
  /\ state' = NextState(state, r.calls)
  /\ hist' = Append(hist, [from |-> state, to |-> state'])
  /\ outcome' = Coalesce(TurnOutcome(state, r.calls), outcome)
  /\ closed' = Finished(state, r.calls)
  /\ status' = StatusAfter(status, state, r.calls)
  /\ tickets' = tickets \cup {<<Len(hist'), i>> : i \in TicketCalls(state, r.calls)}
  /\ fakes' = fakes + WrongNumberCount(state, r.calls)

Next == \E r \in Responses : Turn(r)

Spec == Init /\ [][Next]_vars
-----------------------------------------------------------------------------
Visited == {hist[i].from : i \in DOMAIN hist} \cup {state}

Decided == status \in Decisions

(* The customer's decision on an order is only ever taken after the turns   *)
(* that open, disclose, verify the identity and, unless the wrong person or *)
(* a relative answered, read the order back.  The FSM driver reaches        *)
(* confirm_intent by no other way.                                          *)
DecisionAfterRecap ==
  Decided /\ hist # <<>> /\ hist[1].from = "greeting" =>
    /\ {"greeting", "disclosure", "identity_verify"} \subseteq Visited
    /\ status \in {"confirmed", "cancelled", "change_request", "escalated"} =>
         "order_recap" \in Visited

(* A conversation is closed exactly when it is in a terminal state, and then *)
(* only ever in "closing": the other terminal states, and out_of_scope, are  *)
(* in the registry but no transition leads there.                            *)
ClosedIffClosing ==
  /\ closed <=> state \in Terminal
  /\ state \in Reachable

=============================================================================
