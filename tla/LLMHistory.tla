------------------------------ MODULE LLMHistory ------------------------------
(***************************************************************************)
(* What an LLM provider is shown of a conversation: FSMDriver.step appends *)
(* to the history, channels/dispatch.py stores it as JSON between turns,   *)
(* and the adapter of the provider then configured (llm/anthropic.py,      *)
(* llm/openai_compat.py) builds a request of it.  The rest of the turn is  *)
(* that of Conversation, of which an answer is a response with the ids of  *)
(* its calls.  A text is abstracted to whether it is empty, a tool call to *)
(* its id and name.  What a provider refuses is its API's rule, not the    *)
(* repository's.                                                           *)
(***************************************************************************)
EXTENDS Conversation

CONSTANTS
  Ids,         \* ids of tool calls; a provider may use one again in a later turn
  Answers,     \* what a provider may answer: [text, calls]
  Providers    \* those the deployment may switch between

Call == [id : Ids, name : CallNames]

\* An answer as the state machine sees it.
Reply(r) == [calls |-> [i \in DOMAIN r.calls |-> r.calls[i].name], text |-> r.text]

ASSUME HistoryAssumption ==
  /\ Answers \subseteq [text : BOOLEAN, calls : Seq(Call)]
  /\ \A r \in Answers : Reply(r) \in Responses
  /\ Providers \subseteq {"anthropic", "openai_compat"}

VARIABLES
  row,      \* conversations.history
  said,     \* the messages that were exchanged, as the engine had them
  refused   \* providers that have refused a request

historyVars == <<vars, row, said, refused>>

-----------------------------------------------------------------------------
(* llm/base.py, and the JSON of a message.                                 *)

UserMessage(t)         == [type |-> "UserMessage", text |-> t]
AssistantMessage(t, c) == [type |-> "AssistantMessage", text |-> t, tool_calls |-> c]
ToolResultMessage(i, e) == [type |-> "ToolResultMessage", tool_call_id |-> i, is_error |-> e]

\* Mutant: the tool calls of an answer are not stored.
EncodeText(m) ==
  CASE m.type = "UserMessage"       -> [role |-> "user", text |-> m.text]
    [] m.type = "AssistantMessage"  -> [role |-> "assistant", text |-> m.text, tool_calls |-> <<>>]
    [] m.type = "ToolResultMessage" -> [role |-> "tool", tool_call_id |-> m.tool_call_id,
                                        is_error |-> m.is_error]

Encode(m) ==
  CASE m.type = "UserMessage"       -> [role |-> "user", text |-> m.text]
    [] m.type = "AssistantMessage"  -> [role |-> "assistant", text |-> m.text,
                                        tool_calls |-> m.tool_calls]
    [] m.type = "ToolResultMessage" -> [role |-> "tool", tool_call_id |-> m.tool_call_id,
                                        is_error |-> m.is_error]

Decode(d) ==
  CASE d.role = "user"      -> UserMessage(d.text)
    [] d.role = "assistant" -> AssistantMessage(d.text, d.tool_calls)
    [] d.role = "tool"      -> ToolResultMessage(d.tool_call_id, d.is_error)

EncodeHistory(h) == [i \in DOMAIN h |-> Encode(h[i])]
DecodeHistory(rows) == [i \in DOMAIN rows |-> Decode(rows[i])]

-----------------------------------------------------------------------------
(* The requests.                                                           *)

IdsOf(calls) == {calls[i].id : i \in DOMAIN calls}

\* AnthropicLLM._build_params: the blocks of each message; a message of no
\* block is given one of empty text.
AnthropicMessage(m) ==
  CASE m.type = "UserMessage" ->
         [role |-> "user", empty |-> ~m.text, uses |-> {}, results |-> {}]
    [] m.type = "AssistantMessage" ->
         [role |-> "assistant", empty |-> ~m.text /\ m.tool_calls = <<>>,
          uses |-> IdsOf(m.tool_calls), results |-> {}]
    [] m.type = "ToolResultMessage" ->
         [role |-> "user", empty |-> FALSE, uses |-> {}, results |-> {m.tool_call_id}]

\* OpenAICompatLLM._build_params: a result has a role of its own, and the
\* content of an answer that calls tools may be null.
OpenAIMessage(m) ==
  CASE m.type = "UserMessage" ->
         [role |-> "user", empty |-> FALSE, uses |-> {}, results |-> {}]
    [] m.type = "AssistantMessage" ->
         [role |-> "assistant", empty |-> FALSE, uses |-> IdsOf(m.tool_calls), results |-> {}]
    [] m.type = "ToolResultMessage" ->
         [role |-> "tool", empty |-> FALSE, uses |-> {}, results |-> {m.tool_call_id}]

BuildParams(p, h) ==
  [i \in DOMAIN h |-> IF p = "anthropic" THEN AnthropicMessage(h[i]) ELSE OpenAIMessage(h[i])]

\* The messages of one role directly after an answer count as one: user turns
\* with Anthropic, tool messages with the others.
Following(p, req, i) ==
  {k \in DOMAIN req :
     k > i /\ \A j \in (i + 1) .. k : req[j].role = IF p = "anthropic" THEN "user" ELSE "tool"}

Answered(p, req, i) == UNION {req[k].results : k \in Following(p, req, i)}

\* The calls of an answer have their results right after it, and no result
\* is without its call.
Paired(p, req) ==
  /\ \A i \in DOMAIN req : req[i].role = "assistant" => Answered(p, req, i) = req[i].uses
  /\ \A k \in DOMAIN req : req[k].results # {} =>
       \E i \in DOMAIN req : req[i].role = "assistant" /\ k \in Following(p, req, i)

Empty(req) == \E i \in DOMAIN req : req[i].empty

Accepts(p, req) == Paired(p, req) /\ ~Empty(req)

-----------------------------------------------------------------------------
(* FSMDriver.step: the answer, then one result for each of its calls.      *)

\* Mutant: a call that the state does not admit is dropped without an answer.
OnlyAdmitted(s, calls) ==
  LET ok == SelectSeq(calls, LAMBDA c : c.name \in AllowedTools[s]) IN
  [i \in DOMAIN ok |-> ToolResultMessage(ok[i].id, FALSE)]

\* An error for a call the state does not admit; no handler returns one.
Results(s, calls) ==
  [i \in DOMAIN calls |-> ToolResultMessage(calls[i].id, calls[i].name \notin AllowedTools[s])]

Step(s, h, r) ==
  h \o <<AssistantMessage(r.text, r.calls)>>
    \o IF r.calls = <<>> THEN <<>> ELSE Results(s, r.calls)

History(t) == Append(DecodeHistory(row), UserMessage(t))

\* A turn: the text is empty for a picture, or a voice note nobody transcribed.
Chat(p, t, r) ==
  /\ Turn(Reply(r))
  /\ Accepts(p, BuildParams(p, History(t)))
  /\ row' = EncodeHistory(Step(state, History(t), r))
  /\ said' = Step(state, Append(said, UserMessage(t)), r)
  /\ UNCHANGED refused

\* chat raises, and the turn's transaction ends with it.
Refuse(p, t) ==
  /\ ~closed /\ Len(hist) < MaxTurns
  /\ ~Accepts(p, BuildParams(p, History(t)))
  /\ refused' = refused \cup {p}
  /\ UNCHANGED <<vars, row, said>>

HistoryInit == Init /\ row = <<>> /\ said = <<>> /\ refused = {}

HistoryNext ==
  \E p \in Providers, t \in BOOLEAN :
    \/ \E r \in Answers : Chat(p, t, r)
    \/ Refuse(p, t)

HistorySpec == HistoryInit /\ [][HistoryNext]_historyVars
-----------------------------------------------------------------------------
(* The history that the next turn reads back is the one that was exchanged,  *)
(* calls and errors included.                                                *)
HistoryRoundTrips == DecodeHistory(row) = said

(* Whatever was said, by whichever provider, the next request pairs every    *)
(* tool call with its result, also when the state refused the call and when  *)
(* the provider has changed in between; an OpenAI-compatible server          *)
(* therefore refuses none, and Anthropic only for an empty text.             *)
PairingNeverRefused ==
  /\ \A p \in Providers, t \in BOOLEAN : Paired(p, BuildParams(p, History(t)))
  /\ "openai_compat" \notin refused
=============================================================================
