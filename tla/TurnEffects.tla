----------------------------- MODULE TurnEffects -----------------------------
(***************************************************************************)
(* What the tool handlers of channels/dispatch.py write when one response  *)
(* of the LLM is applied in conversation state s: the order's              *)
(* confirmation_status, the rows of escalation_queue, the customer's       *)
(* fake_order_count, and the conversation outcome that                     *)
(* _outcome_from_tools derives.  Tags and metadata of the order are set by *)
(* the same statements as the status and are left out.                     *)
(*                                                                         *)
(* Every handler of a response runs, in call order, in one transaction, so *)
(* the last one decides the status; the outcome is that of the first.      *)
(***************************************************************************)
EXTENDS ConversationFSM, FiniteSets

\* confirmation_status values the modules reach.
Decisions ==
  {"confirmed", "cancelled", "rescheduled", "change_request",
   "wrong_number", "escalated"}

OrderStatuses == {"pending", "dispatched"} \cup Decisions

Outcomes ==
  {"confirmed", "cancelled", "rescheduled", "change_request",
   "wrong_number", "callback", "escalated"}

\* switch_lang and end_convo write nothing.
Effectful == Tools \ {"switch_language", "end_conversation"}

\* Mutant: escalate_to_human leaves no ticket.
EscalatingChangesOnly == {"flag_change_request"}

Escalating == {"flag_change_request", "escalate_to_human"}

\* The confirmation_status each handler sets.
StatusSetBy ==
  [t \in Effectful |->
     CASE t = "confirm_order"       -> "confirmed"
       [] t = "cancel_order"        -> "cancelled"
       [] t = "reschedule_delivery" -> "rescheduled"
       [] t = "flag_change_request" -> "change_request"
       [] t = "flag_wrong_number"   -> "wrong_number"
       [] t = "flag_proxy_answerer" -> "rescheduled"
       [] t = "escalate_to_human"   -> "escalated"]

\* The mapping of _outcome_from_tools.
OutcomeOfTool ==
  [t \in Effectful |->
     IF t = "flag_proxy_answerer" THEN "callback" ELSE StatusSetBy[t]]

StatusAfter(status, s, calls) ==
  IF Uses(s, calls, Effectful) = {} THEN status
  ELSE StatusSetBy[calls[Last(Uses(s, calls, Effectful))]]

TurnOutcome(s, calls) ==
  IF Uses(s, calls, Effectful) = {} THEN None
  ELSE OutcomeOfTool[calls[First(Uses(s, calls, Effectful))]]

\* Positions of the calls that insert a row into escalation_queue.
TicketCalls(s, calls) == Uses(s, calls, Escalating)

\* How often flag_wrong_number increments fake_order_count.
WrongNumberCount(s, calls) == Cardinality(Uses(s, calls, {"flag_wrong_number"}))

\* Mutant: outcome = :oc
Overwrite(new, old) == new

\* outcome = COALESCE(:oc, outcome)
Coalesce(new, old) == IF new # None THEN new ELSE old
=============================================================================
