----------------------------- MODULE MCLLMHistory -----------------------------
(* Model checking of LLMHistory: answers with no call, a call the state may  *)
(* refuse, and two calls, in every order; ids come back in later turns.      *)
EXTENDS LLMHistory

MCIds == {"a", "b"}
MCProviders == {"anthropic", "openai_compat"}
MCStates == {"identity_verify", "confirm_intent"}
MCCalls ==
  {<<>>} \cup {<<[id |-> "a", name |-> n]>> : n \in {"end_conversation", "unknown_tool"}}
  \cup {<<[id |-> "a", name |-> m], [id |-> "b", name |-> n]>> :
          m, n \in {"switch_language", "end_conversation"}}
MCAnswers == [text : BOOLEAN, calls : MCCalls]
MCResponses == {Reply(r) : r \in MCAnswers}
=============================================================================
