--------------------------- MODULE ConversationFSM ---------------------------
(***************************************************************************)
(* The conversation state machine of apps/api/awaaz_api/fsm: the state     *)
(* registry, the tools each state admits, the transition table, and one    *)
(* call of FSMDriver.step.  All definitions are pure; the channel modules  *)
(* give them a database and an LLM.                                        *)
(*                                                                         *)
(* An LLM response is abstracted to the sequence of the names of the tools *)
(* it calls and to whether it carries text.  "unknown_tool" stands for any *)
(* name the model may invent that is in no registry.                       *)
(***************************************************************************)
EXTENDS Naturals, Sequences

None == "none"

Terminal == {"closing", "voicemail_fallback", "failed"}

Tools ==
  {"confirm_order", "cancel_order", "reschedule_delivery",
   "flag_change_request", "flag_wrong_number", "flag_proxy_answerer",
   "escalate_to_human", "switch_language", "end_conversation"}

CallNames == Tools \cup {"unknown_tool"}

IdentityTools == {"flag_wrong_number", "flag_proxy_answerer", "switch_language"}

IntentTools ==
  {"confirm_order", "cancel_order", "reschedule_delivery",
   "flag_change_request", "escalate_to_human", "end_conversation"}

States ==
  {"greeting", "disclosure", "identity_verify", "order_recap",
   "confirm_intent", "wrong_number", "proxy_answerer", "language_fallback",
   "out_of_scope"} \cup Terminal

\* Mutant: every state admits every tool.
AllToolsEverywhere == [s \in States |-> Tools]

\* build_state_registry: State.allowed_tools.
AllowedTools ==
  [s \in States |->
     CASE s = "identity_verify"   -> IdentityTools
       [] s = "confirm_intent"    -> IntentTools
       [] s = "language_fallback" -> {"switch_language"}
       [] s = "out_of_scope"      -> {"escalate_to_human"}
       [] OTHER                   -> {}]

\* The "default" column of TRANSITIONS, with the engine's fallback (stay) for
\* a state that has no row.
DefaultNext ==
  [s \in States |->
     CASE s = "greeting"          -> "disclosure"
       [] s = "disclosure"        -> "identity_verify"
       [] s = "identity_verify"   -> "order_recap"
       [] s = "order_recap"       -> "confirm_intent"
       [] s = "wrong_number"      -> "closing"
       [] s = "proxy_answerer"    -> "closing"
       [] s = "language_fallback" -> "greeting"
       [] s = "out_of_scope"      -> "closing"
       [] OTHER                   -> s]

\* The tool columns of TRANSITIONS: <<state, tool, next state>>.
\* end_conversation, and switch_language outside identity_verify, have none.
ToolEdges ==
  {<<"identity_verify", "flag_wrong_number", "wrong_number">>,
   <<"identity_verify", "flag_proxy_answerer", "proxy_answerer">>,
   <<"identity_verify", "switch_language", "language_fallback">>,
   <<"out_of_scope", "escalate_to_human", "closing">>}
  \cup {<<"confirm_intent", t, "closing">> : t \in IntentTools \ {"end_conversation"}}

\* The states a conversation can reach from the one it is created in.
Reachable == States \ {"out_of_scope", "voicemail_fallback", "failed"}
-----------------------------------------------------------------------------
\* self._states.get(current_state) or self._states["greeting"]
Resolve(s) == IF s \in States THEN s ELSE "greeting"

\* The positions of a response at which a handler for one of the tools T runs:
\* a call of a tool that the state does not admit is answered with an error.
Uses(s, calls, T) ==
  IF s \in Terminal THEN {}
  ELSE {i \in DOMAIN calls : calls[i] \in AllowedTools[s] \cap T}

\* The positions whose tool has an edge out of s.
Moves(s, calls) ==
  {i \in Uses(s, calls, Tools) : \E n \in States : <<s, calls[i], n>> \in ToolEdges}

First(I) == CHOOSE i \in I : \A j \in I : i <= j
Last(I)  == CHOOSE i \in I : \A j \in I : j <= i

\* "First valid tool decides the transition"; a turn of text alone takes the
\* default; a turn whose calls move nothing stays.
NextState(s, calls) ==
  CASE s \in Terminal       -> s
    [] s \notin Terminal /\ calls = <<>> -> DefaultNext[s]
    [] s \notin Terminal /\ calls # <<>> /\ Moves(s, calls) = {} -> s
    [] OTHER -> CHOOSE n \in States :
                  <<s, calls[First(Moves(s, calls))], n>> \in ToolEdges

\* Mutant: finished when the step started from a terminal state.
FinishedBefore(s, calls) == s \in Terminal

Finished(s, calls) == NextState(s, calls) \in Terminal
=============================================================================
